---- MODULE Spec2Model ----
(***************************************************************************)
(* Model of streamlit_app.py: a timed multiplication quiz (Streamlit).     *)
(*                                                                         *)
(* The session record st.session_state['game_state'] is the variable       *)
(* game_state; the wall clock read by time.time() is the variable now; the *)
(* file highscores.json is the variable highscore_file.  Two               *)
(* specifications share these variables:                                   *)
(*   SpecCore - the logic functions and callbacks applied in any order to  *)
(*              the session record (the interface of the game core);       *)
(*   Spec     - the Streamlit application: one action per script run of    *)
(*              main(), started by the widget the last run rendered.       *)
(***************************************************************************)
EXTENDS Integers, Sequences, FiniteSets, TLC

\* ---------------------------------------------------------------- bounds
\* A run of the model starts no new game once MaxSaves writes of
\* highscores.json have been attempted.
MaxSaves == 1

\* ------------------------------------------------------------- constants
TOTAL_ROUNDS == 20
SESSION_TIME_LIMIT_SECONDS == 300
PHASE_1_RANGE == <<1, 10>>
PHASE_2_RANGE == <<11, 20>>
PHASE_1_END_ROUND == 7
PHASE_2_END_ROUND == 14
POINTS_PHASE_1 == 1
POINTS_PHASE_2 == 5
POINTS_PHASE_3 == 10
MAX_HIGHSCORES == 10

\* ------------------------------------------------------ values and texts
\* Python's None and a present value, for the fields that may hold None.
None == << >>
Some(x) == <<x>>
Get(o) == o[1]

\* A message is its format string and the values formatted into it.
Msg(text, args) == [text |-> text, args |-> args]
MSG_EMPTY == Msg("", << >>)
MSG_FIRST == Msg("Here is your first question. Good luck!", << >>)
MSG_CORRECT(points_to_add) ==
    Msg("Great job! That was correct. +{points_to_add} points.", <<points_to_add>>)
MSG_FINISHED == Msg("Wow! You finished all rounds! You are a math star!", << >>)
MSG_WRONG(correct_answer) ==
    Msg("Oh no! The correct answer was {correct_answer}. Game over.", <<correct_answer>>)
MSG_TIME_UP == Msg("Time is up! Game over.", << >>)

\* ------------------------------------------------------------------ state
VARIABLES
    game_state,      \* st.session_state['game_state']
    now,             \* the wall clock, in seconds
    highscore_file,  \* the contents of highscores.json
    saves,           \* number of writes of highscores.json by the save form
    call,            \* the operation of the last step and its input
    writers          \* per browser session, its save of a high score in flight

vars == <<game_state, now, highscore_file, saves, call, writers>>

\* ------------------------------------------------------- logic functions
initialize_game_state ==
    [status |-> "welcome",
     current_round |-> 0,
     score |-> 0,
     current_question |-> None,
     start_time |-> None,
     last_message |-> MSG_EMPTY,
     show_highscore_form |-> FALSE]

\* The outcomes of random.randint(range[0], range[1]) the model enumerates:
\* the least and the greatest value of the range.
randint(range) == {range[1], range[2]}

Question(a, b) == [a |-> a, b |-> b, answer |-> a * b]

\* Variant of generate_question: the bands end one round early (< for <=).
generate_question_lt(current_round) ==
    IF current_round < PHASE_1_END_ROUND
    THEN {Question(a, b) : a \in randint(PHASE_1_RANGE), b \in randint(PHASE_1_RANGE)}
    ELSE IF current_round < PHASE_2_END_ROUND
    THEN UNION {{IF swap THEN Question(b, a) ELSE Question(a, b) : swap \in BOOLEAN} :
                    <<a, b>> \in randint(PHASE_1_RANGE) \X randint(PHASE_2_RANGE)}
    ELSE {Question(a, b) : a \in randint(PHASE_2_RANGE), b \in randint(PHASE_2_RANGE)}

\* The set of questions generate_question(current_round) can return.
generate_question(current_round) ==
    IF current_round <= PHASE_1_END_ROUND
    THEN {Question(a, b) : a \in randint(PHASE_1_RANGE), b \in randint(PHASE_1_RANGE)}
    ELSE IF current_round <= PHASE_2_END_ROUND
    THEN UNION {{IF swap THEN Question(b, a) ELSE Question(a, b) : swap \in BOOLEAN} :
                    <<a, b>> \in randint(PHASE_1_RANGE) \X randint(PHASE_2_RANGE)}
    ELSE {Question(a, b) : a \in randint(PHASE_2_RANGE), b \in randint(PHASE_2_RANGE)}

\* Variant of get_points_for_round: the bands end one round early (< for <=).
get_points_for_round_lt(current_round) ==
    IF current_round < PHASE_1_END_ROUND THEN POINTS_PHASE_1
    ELSE IF current_round < PHASE_2_END_ROUND THEN POINTS_PHASE_2
    ELSE POINTS_PHASE_3

get_points_for_round(current_round) ==
    IF current_round <= PHASE_1_END_ROUND THEN POINTS_PHASE_1
    ELSE IF current_round <= PHASE_2_END_ROUND THEN POINTS_PHASE_2
    ELSE POINTS_PHASE_3

\* Variant of get_phase_for_round: the bands end one round early (< for <=).
get_phase_for_round_lt(current_round) ==
    IF current_round < PHASE_1_END_ROUND THEN 1
    ELSE IF current_round < PHASE_2_END_ROUND THEN 2
    ELSE 3

get_phase_for_round(current_round) ==
    IF current_round <= PHASE_1_END_ROUND THEN 1
    ELSE IF current_round <= PHASE_2_END_ROUND THEN 2
    ELSE 3

\* if updated_state['score'] > 0: updated_state['show_highscore_form'] = True
offer_highscore_form(updated_state) ==
    IF updated_state.score > 0
    THEN [updated_state EXCEPT !.show_highscore_form = TRUE]
    ELSE updated_state

\* Variant of answer_correct: the game ends when the incremented round
\* reaches TOTAL_ROUNDS (>= for >).
answer_correct_ends_early(updated_state) ==
    LET points_to_add == get_points_for_round(updated_state.current_round)
        awarded == [updated_state EXCEPT
                        !.score = @ + points_to_add,
                        !.current_round = @ + 1,
                        !.last_message = MSG_CORRECT(points_to_add)]
    IN  IF awarded.current_round >= TOTAL_ROUNDS
        THEN {offer_highscore_form([awarded EXCEPT
                        !.status = "game_over",
                        !.last_message = MSG_FINISHED,
                        !.current_question = None])}
        ELSE {[awarded EXCEPT !.current_question = Some(q)] :
                    q \in generate_question(awarded.current_round)}

\* Variant of answer_correct: the round is incremented before the points are
\* looked up, so the points are those of the next round.
answer_correct_points_of_next_round(updated_state) ==
    LET points_to_add == get_points_for_round(updated_state.current_round + 1)
        awarded == [updated_state EXCEPT
                        !.score = @ + points_to_add,
                        !.current_round = @ + 1,
                        !.last_message = MSG_CORRECT(points_to_add)]
    IN  IF awarded.current_round > TOTAL_ROUNDS
        THEN {offer_highscore_form([awarded EXCEPT
                        !.status = "game_over",
                        !.last_message = MSG_FINISHED,
                        !.current_question = None])}
        ELSE {[awarded EXCEPT !.current_question = Some(q)] :
                    q \in generate_question(awarded.current_round)}

\* Variant of answer_correct: the game goes on for one round more
\* (> TOTAL_ROUNDS + 1).
answer_correct_one_round_more(updated_state) ==
    LET points_to_add == get_points_for_round(updated_state.current_round)
        awarded == [updated_state EXCEPT
                        !.score = @ + points_to_add,
                        !.current_round = @ + 1,
                        !.last_message = MSG_CORRECT(points_to_add)]
    IN  IF awarded.current_round > TOTAL_ROUNDS + 1
        THEN {offer_highscore_form([awarded EXCEPT
                        !.status = "game_over",
                        !.last_message = MSG_FINISHED,
                        !.current_question = None])}
        ELSE {[awarded EXCEPT !.current_question = Some(q)] :
                    q \in generate_question(awarded.current_round)}

\* Variant of answer_correct: the round is not counted.
answer_correct_round_not_counted(updated_state) ==
    LET points_to_add == get_points_for_round(updated_state.current_round)
        awarded == [updated_state EXCEPT
                        !.score = @ + points_to_add,
                        !.last_message = MSG_CORRECT(points_to_add)]
    IN  IF awarded.current_round > TOTAL_ROUNDS
        THEN {offer_highscore_form([awarded EXCEPT
                        !.status = "game_over",
                        !.last_message = MSG_FINISHED,
                        !.current_question = None])}
        ELSE {[awarded EXCEPT !.current_question = Some(q)] :
                    q \in generate_question(awarded.current_round)}

\* check_answer, the branch user_input == correct_answer: the set of states
\* it can return (one per question generate_question can draw).
answer_correct(updated_state) ==
    LET points_to_add == get_points_for_round(updated_state.current_round)
        awarded == [updated_state EXCEPT
                        !.score = @ + points_to_add,
                        !.current_round = @ + 1,
                        !.last_message = MSG_CORRECT(points_to_add)]
    IN  IF awarded.current_round > TOTAL_ROUNDS
        THEN {offer_highscore_form([awarded EXCEPT
                        !.status = "game_over",
                        !.last_message = MSG_FINISHED,
                        !.current_question = None])}
        ELSE {[awarded EXCEPT !.current_question = Some(q)] :
                    q \in generate_question(awarded.current_round)}

\* Variant of answer_incorrect: the high score form is offered whatever the
\* score.
answer_incorrect_always_offers(updated_state, correct_answer) ==
    [updated_state EXCEPT
            !.status = "game_over",
            !.last_message = MSG_WRONG(correct_answer),
            !.current_question = None,
            !.show_highscore_form = TRUE]

\* Variant of answer_incorrect: the round is counted although the answer
\* was wrong.
answer_incorrect_counts_round(updated_state, correct_answer) ==
    offer_highscore_form([updated_state EXCEPT
                        !.status = "game_over",
                        !.current_round = @ + 1,
                        !.last_message = MSG_WRONG(correct_answer),
                        !.current_question = None])

\* check_answer, the branch user_input != correct_answer.
answer_incorrect(updated_state, correct_answer) ==
    offer_highscore_form([updated_state EXCEPT
                        !.status = "game_over",
                        !.last_message = MSG_WRONG(correct_answer),
                        !.current_question = None])

\* Variant of check_answer: no guard for a missing question; the input is
\* compared with None and found different.
check_answer_unguarded(state, user_input) ==
    IF state.current_question = None
    THEN {answer_incorrect(state, 0)}
    ELSE LET correct_answer == Get(state.current_question).answer
         IN  IF user_input = correct_answer
             THEN answer_correct(state)
             ELSE {answer_incorrect(state, correct_answer)}

\* The set of states check_answer(game_state, user_input) can return.
check_answer(state, user_input) ==
    IF state.current_question = None
    THEN {state}
    ELSE LET correct_answer == Get(state.current_question).answer
         IN  IF user_input = correct_answer
             THEN answer_correct(state)
             ELSE {answer_incorrect(state, correct_answer)}

\* Variant of time_limit_reached: >= for >.
time_limit_reached_at_limit(elapsed_time) ==
    elapsed_time >= SESSION_TIME_LIMIT_SECONDS

\* elapsed_time > SESSION_TIME_LIMIT_SECONDS
time_limit_reached(elapsed_time) == elapsed_time > SESSION_TIME_LIMIT_SECONDS

\* Variant of check_timer: the question is not cleared on a timeout.
check_timer_keeps_question(state, t) ==
    IF state.status # "playing"
    THEN state
    ELSE IF time_limit_reached(t - Get(state.start_time))
         THEN offer_highscore_form([state EXCEPT
                        !.status = "game_over",
                        !.last_message = MSG_TIME_UP])
         ELSE state

\* check_timer(game_state), with time.time() returning t.
check_timer(state, t) ==
    IF state.status # "playing"
    THEN state
    ELSE IF time_limit_reached(t - Get(state.start_time))
         THEN offer_highscore_form([state EXCEPT
                        !.status = "game_over",
                        !.last_message = MSG_TIME_UP,
                        !.current_question = None])
         ELSE state

\* ---------------------------------------------------- highscore functions
\* A text is the sequence of its characters.
IsSpace(c) == c = " "

RECURSIVE lstrip(_)
lstrip(text) ==
    IF text # << >> /\ IsSpace(Head(text)) THEN lstrip(Tail(text)) ELSE text

RECURSIVE rstrip(_)
rstrip(text) ==
    IF text # << >> /\ IsSpace(text[Len(text)])
    THEN rstrip(SubSeq(text, 1, Len(text) - 1))
    ELSE text

\* str.strip()
strip(text) == rstrip(lstrip(text))

\* time.strftime('%Y-%m-%d %H:%M', time.localtime(t)): the minute t falls in.
strftime(t) == t \div 60

\* The contents of highscores.json: no file, text that is no JSON, or a JSON
\* list of entries.
FILE_MISSING == [kind |-> "missing", scores |-> << >>]
FILE_MALFORMED == [kind |-> "malformed", scores |-> << >>]
FILE_JSON(scores) == [kind |-> "json", scores |-> scores]

\* x.get('score', 0) comes before y.get('score', 0) in a descending sort
ranks_before_or_ties(x, y) == x.score >= y.score

ranks_before(x, y) == x.score > y.score

\* One step of the stable sort: entry goes after every entry of sorted it
\* does not rank before.
RECURSIVE insert_sorted(_, _)
insert_sorted(sorted, entry) ==
    IF sorted = << >> THEN <<entry>>
    ELSE IF ranks_before(entry, Head(sorted))
         THEN <<entry>> \o sorted
         ELSE <<Head(sorted)>> \o insert_sorted(Tail(sorted), entry)

\* scores.sort(key=lambda x: x.get('score', 0), reverse=True): stable.
RECURSIVE sort_by_score(_)
sort_by_score(scores) ==
    IF scores = << >> THEN << >>
    ELSE insert_sorted(sort_by_score(SubSeq(scores, 1, Len(scores) - 1)),
                       scores[Len(scores)])

\* Only the missing file is handled: a file that is no JSON yields an entry
\* that stands for the error reaching the caller.
load_highscores_raises(file) ==
    IF file.kind = "json" THEN sort_by_score(file.scores)
    ELSE IF file.kind = "missing" THEN << >>
    ELSE <<[name |-> <<"e", "r", "r", "o", "r">>, score |-> 0, date |-> 0]>>

load_highscores(file) ==
    IF file.kind = "json" THEN sort_by_score(file.scores) ELSE << >>

\* save_highscores(filepath, scores): io is what the file system does: "ok",
\* "open_failed" (open raises, the file is untouched) or "write_failed"
\* (open truncated the file and json.dump raised: the file holds no JSON).
IoOutcomes == {"ok", "open_failed", "write_failed"}
save_highscores_appends(file, scores, io) ==
    IF io = "ok"
    THEN FILE_JSON((IF file.kind = "json" THEN file.scores ELSE << >>) \o scores)
    ELSE IF io = "open_failed" THEN file
    ELSE FILE_MALFORMED

save_highscores(file, scores, io) ==
    IF io = "ok" THEN FILE_JSON(scores)
    ELSE IF io = "open_failed" THEN file
    ELSE FILE_MALFORMED

\* add_highscore(name, score, current_scores), with time.time() returning t.
add_highscore(name, score, current_scores, t) ==
    LET new_entry == [name |-> name, score |-> score, date |-> strftime(t)]
        updated_scores == sort_by_score(current_scores \o <<new_entry>>)
    IN  SubSeq(updated_scores, 1,
               IF Len(updated_scores) < MAX_HIGHSCORES
               THEN Len(updated_scores) ELSE MAX_HIGHSCORES)

\* ------------------------------------------------------------- callbacks
\* The set of states start_game_callback can store, time.time() returning t.
start_game_callback(t) ==
    {[initialize_game_state EXCEPT
            !.status = "playing",
            !.start_time = Some(t),
            !.current_round = 1,
            !.current_question = Some(q),
            !.last_message = MSG_FIRST] : q \in generate_question(1)}

restart_game_callback == initialize_game_state

\* display_game_over_screen, the form "Save High Score" submitted with
\* player_name: the session record and the file it leaves.
save_high_score_keeps_form(state, file, player_name, t, io) ==
    IF player_name = << >>
    THEN [state |-> state, file |-> file]
    ELSE LET current_scores == load_highscores(file)
             new_scores == add_highscore(strip(player_name), state.score,
                                         current_scores, t)
         IN  [state |-> state,
              file |-> save_highscores(file, new_scores, io)]

save_high_score(state, file, player_name, t, io) ==
    IF player_name = << >>
    THEN [state |-> state, file |-> file]
    ELSE LET current_scores == load_highscores(file)
             new_scores == add_highscore(strip(player_name), state.score,
                                         current_scores, t)
         IN  [state |-> [state EXCEPT !.show_highscore_form = FALSE],
              file |-> save_highscores(file, new_scores, io)]

\* Variant of main_controller: the timer is not checked.
main_controller_without_timer(state, t) == state

\* main, the controller part: the timer is checked only while playing.
main_controller(state, t) ==
    IF state.status = "playing" THEN check_timer(state, t) ELSE state

\* ---------------------------------------------------------------- inputs
\* The instants at which the clock is read: the start, the last second of
\* the time limit and the first one past it.
TimePoints ==
    {0, SESSION_TIME_LIMIT_SECONDS, SESSION_TIME_LIMIT_SECONDS + 1}

\* Integers passed to check_answer(state, user_input): a negative one, zero
\* and, when there is a question, its answer and the two integers next to it.
UserValues(state) ==
    {-1, 0} \cup
    (IF state.current_question = None THEN {}
     ELSE LET correct_answer == Get(state.current_question).answer
          IN  {correct_answer - 1, correct_answer, correct_answer + 1})

\* Integers st.number_input(min_value=0, step=1) lets the player submit.
FormValues(state) == {v \in UserValues(state) : v >= 0}

\* Texts typed into st.text_input("Your Name:"): none, a blank, a name and
\* a name with blanks around it.
NameTexts == {<< >>, <<" ">>, <<"A">>, <<" ", "A", " ">>}

Call(op, value) == [op |-> op, value |-> value]

\* The browser sessions whose saves of a high score may overlap, and a
\* session that is not saving.
Sessions == {1, 2}
WRITER_IDLE == [pc |-> "idle", new_scores |-> << >>]

\* ------------------------------------------------------------------ Init
Init ==
    /\ game_state = initialize_game_state
    /\ now = 0
    /\ highscore_file = FILE_MISSING
    /\ saves = 0
    /\ call = Call("init", None)
    /\ writers = [s \in Sessions |-> WRITER_IDLE]

\* Time passes.
Tick ==
    /\ \E t \in TimePoints : t > now /\ now' = t
    /\ call' = Call("tick", None)
    /\ UNCHANGED <<game_state, highscore_file, saves, writers>>

\* ------------------------------------------- SpecCore: the game core
\* start(): start_game_callback, which never reads the prior state.
CoreStart ==
    /\ saves < MaxSaves
    /\ game_state' \in start_game_callback(now)
    /\ call' = Call("start", None)
    /\ UNCHANGED <<now, highscore_file, saves, writers>>

\* submitAnswer(state, userValue): check_answer on the session record.
CoreSubmit ==
    /\ \E user_input \in UserValues(game_state) :
        /\ game_state' \in check_answer(game_state, user_input)
        /\ call' = Call("submit", Some(user_input))
    /\ UNCHANGED <<now, highscore_file, saves, writers>>

\* checkTimer(state, now): check_timer on the session record.
CoreCheckTimer ==
    /\ game_state' = check_timer(game_state, now)
    /\ call' = Call("timer", None)
    /\ UNCHANGED <<now, highscore_file, saves, writers>>

\* save-score: the high score form, shown while show_highscore_form is set.
CoreSave ==
    /\ game_state.status = "game_over"
    /\ game_state.show_highscore_form
    /\ \E player_name \in NameTexts, io \in IoOutcomes :
        LET saved == save_high_score(game_state, highscore_file, player_name, now, io)
        IN  /\ game_state' = saved.state
            /\ highscore_file' = saved.file
            /\ saves' = IF player_name = << >> THEN saves ELSE saves + 1
    /\ call' = Call("save", None)
    /\ UNCHANGED <<now, writers>>

\* restart(): restart_game_callback.
CoreRestart ==
    /\ game_state' = restart_game_callback
    /\ call' = Call("restart", None)
    /\ UNCHANGED <<now, highscore_file, saves, writers>>

NextCore ==
    \/ CoreStart
    \/ CoreSubmit
    \/ CoreCheckTimer
    \/ CoreSave
    \/ CoreRestart
    \/ Tick

SpecCore == Init /\ [][NextCore]_vars

\* ------------------------------------------- Spec: the Streamlit app
\* Each action is one interaction: the callback of the clicked widget, then
\* the script run of main() (and the run st.rerun() starts).  A widget can
\* be clicked only on the screen main() routes the current status to.

\* "Start Game" on the welcome screen: start_game_callback, then main().
StartClick ==
    /\ game_state.status = "welcome"
    /\ saves < MaxSaves
    /\ game_state' \in {main_controller(new_state, now) :
                            new_state \in start_game_callback(now)}
    /\ call' = Call("start", None)
    /\ UNCHANGED <<now, highscore_file, saves, writers>>

\* "Submit Answer" on the game screen with a number entered: main() checks
\* the timer, display_game_screen calls check_answer if the game is still
\* being played, and st.rerun() runs main() again.
SubmitClick ==
    /\ game_state.status = "playing"
    /\ game_state.current_question # None
    /\ \E user_answer \in FormValues(game_state) :
        LET game_data == main_controller(game_state, now)
        IN  /\ IF game_data.status = "playing"
               THEN game_state' \in {main_controller(updated_state, now) :
                            updated_state \in check_answer(game_data, user_answer)}
               ELSE game_state' = game_data
            /\ call' = Call("submit", Some(user_answer))
    /\ UNCHANGED <<now, highscore_file, saves, writers>>

\* A script run that handles no widget: "Submit Answer" with the field
\* empty, "Save High Score" with no name, or any other rerun.
Rerun ==
    /\ game_state' = main_controller(game_state, now)
    /\ call' = Call("rerun", None)
    /\ UNCHANGED <<now, highscore_file, saves, writers>>

\* "Save High Score" on the game over screen with a name entered.
SaveClick ==
    /\ game_state.status = "game_over"
    /\ game_state.show_highscore_form
    /\ \E player_name \in NameTexts \ {<< >>}, io \in IoOutcomes :
        LET game_data == main_controller(game_state, now)
            saved == save_high_score(game_data, highscore_file, player_name, now, io)
        IN  /\ game_state' = main_controller(saved.state, now)
            /\ highscore_file' = saved.file
    /\ saves' = saves + 1
    /\ call' = Call("save", None)
    /\ UNCHANGED <<now, writers>>

\* Variant of RestartClick: "Play Again" is shown on every screen.
RestartClick_on_any_screen ==
    /\ game_state' = main_controller(restart_game_callback, now)
    /\ call' = Call("restart", None)
    /\ UNCHANGED <<now, highscore_file, saves, writers>>

\* "Play Again" on the game over screen: restart_game_callback, then main().
RestartClick ==
    /\ game_state.status = "game_over"
    /\ game_state' = main_controller(restart_game_callback, now)
    /\ call' = Call("restart", None)
    /\ UNCHANGED <<now, highscore_file, saves, writers>>

Next ==
    \/ StartClick
    \/ SubmitClick
    \/ Rerun
    \/ SaveClick
    \/ RestartClick
    \/ Tick

Spec == Init /\ [][Next]_vars

\* ------------------------------------ SpecScoring: the scoring policy
\* get_phase_for_round and get_points_for_round applied to two rounds of a
\* game; the step records the rounds and what the functions returned.
ScoringLookup ==
    /\ \E r1 \in 1..TOTAL_ROUNDS, r2 \in 1..TOTAL_ROUNDS :
        call' = Call("scoring",
                     <<r1, get_phase_for_round(r1), get_points_for_round(r1),
                       r2, get_phase_for_round(r2), get_points_for_round(r2)>>)
    /\ UNCHANGED <<game_state, now, highscore_file, saves, writers>>

NextScoring == ScoringLookup

SpecScoring == Init /\ [][NextScoring]_vars

\* ------------------------------------ SpecStore: the highscore store
\* load_highscores, add_highscore and save_highscores applied to a file that
\* holds any of StoredFiles at first.  Each step records its inputs (the
\* file before it, the name and the score), its io outcome and what the
\* functions returned.
\* The names and scores handed to add_highscore: two names with the same
\* score, and a lower score.
StoreInputs == {<<<<"A", "d", "a">>, 102>>, <<<<"B", "o", "b">>, 102>>,
                <<<<"B", "o", "b">>, 5>>}
StoreEntries ==
    {[name |-> input[1], score |-> input[2], date |-> strftime(0)] :
        input \in StoreInputs}

\* The files found at first: none, one that is no JSON, and the JSON lists
\* of up to two entries, in any order.
StoredFiles ==
    {FILE_MISSING, FILE_MALFORMED}
    \cup {FILE_JSON(scores) :
            scores \in {<< >>} \cup {<<e>> : e \in StoreEntries}
                       \cup {<<e1, e2>> : e1 \in StoreEntries, e2 \in StoreEntries}}

StoreCall(op, name, score, io, current, result) ==
    [op |-> op, name |-> name, score |-> score, io |-> io,
     before |-> highscore_file, current |-> current, result |-> result]

InitStore ==
    /\ game_state = initialize_game_state
    /\ now = 0
    /\ highscore_file \in StoredFiles
    /\ saves = 0
    /\ call = Call("init", None)
    /\ writers = [s \in Sessions |-> WRITER_IDLE]

\* load(): load_highscores(HIGHSCORE_FILE), as the welcome screen calls it.
StoreLoad ==
    /\ call' = StoreCall("load", << >>, 0, "ok", << >>,
                         load_highscores(highscore_file))
    /\ UNCHANGED <<game_state, now, highscore_file, saves, writers>>

\* load, add, save: what the high score form does with a name and a score.
StoreAdd ==
    /\ \E input \in StoreInputs, io \in IoOutcomes :
        LET current_scores == load_highscores(highscore_file)
            new_scores == add_highscore(input[1], input[2], current_scores, now)
        IN  /\ highscore_file' = save_highscores(highscore_file, new_scores, io)
            /\ call' = StoreCall("add", input[1], input[2], io,
                                 current_scores, new_scores)
    /\ UNCHANGED <<game_state, now, saves, writers>>

\* save(load()): the loaded list is written back.
StoreResave ==
    /\ \E io \in IoOutcomes :
        LET current_scores == load_highscores(highscore_file)
        IN  /\ highscore_file' = save_highscores(highscore_file, current_scores, io)
            /\ call' = StoreCall("resave", << >>, 0, io, current_scores, current_scores)
    /\ UNCHANGED <<game_state, now, saves, writers>>

NextStore ==
    \/ StoreLoad
    \/ StoreAdd
    \/ StoreResave

SpecStore == InitStore /\ [][NextStore]_vars

\* ------------------------------- SpecRace: saves of sessions that overlap
\* Each session runs the high score form's load, add, save (lines 350-353)
\* in its own script thread, and save_highscores is two file operations:
\* open(filepath, 'w'), which empties the file, and json.dump on the handle,
\* which writes the text from offset 0 when the handle is flushed.  No lock
\* is held, so the operations of the sessions interleave.  File operations
\* succeed here.

\* The load, add, save cycles started in a behaviour.
MaxCycles == 3

\* The length of the text json.dump(scores, f, indent=4) writes: "[]" for
\* the empty list, and for each entry its brackets, keys, indentation and
\* 16 character date, its name and the digits of its score.
JSON_ENTRY_OVERHEAD == 87
RECURSIVE digits(_)
digits(n) == IF n < 10 THEN 1 ELSE 1 + digits(n \div 10)

RECURSIVE json_length(_)
json_length(scores) ==
    IF scores = << >> THEN 2
    ELSE JSON_ENTRY_OVERHEAD + Len(Head(scores).name) + digits(Head(scores).score)
         + json_length(Tail(scores))

\* The file after the text of scores is written from offset 0 over what the
\* file holds: a longer text keeps its tail behind the new text, and the
\* whole is no JSON.  A file without JSON is the one the writer's own open
\* has emptied, as no third session writes.
write_from_start(file, scores) ==
    IF file.kind = "json" /\ json_length(file.scores) > json_length(scores)
    THEN FILE_MALFORMED
    ELSE FILE_JSON(scores)

\* In the steps below call.value is the sequence given to the most recent
\* save, None before the first.

\* current_scores = load_highscores(...); new_scores = add_highscore(...).
RaceLoadAdd(s) ==
    /\ writers[s].pc = "idle"
    /\ saves < MaxCycles
    /\ \E input \in StoreInputs :
        LET current_scores == load_highscores(highscore_file)
            new_scores == add_highscore(input[1], input[2], current_scores, now)
        IN  writers' = [writers EXCEPT ![s] = [pc |-> "loaded",
                                               new_scores |-> new_scores]]
    /\ saves' = saves + 1
    /\ call' = Call("race_load", call.value)
    /\ UNCHANGED <<game_state, now, highscore_file>>

\* save_highscores is entered: open(filepath, 'w') empties the file.
RaceOpen(s) ==
    /\ writers[s].pc = "loaded"
    /\ highscore_file' = FILE_MALFORMED
    /\ writers' = [writers EXCEPT ![s].pc = "opened"]
    /\ call' = Call("race_open", Some(writers[s].new_scores))
    /\ UNCHANGED <<game_state, now, saves>>

\* json.dump(scores, f, indent=4) and the end of the with block.
RaceDump(s) ==
    /\ writers[s].pc = "opened"
    /\ highscore_file' = write_from_start(highscore_file, writers[s].new_scores)
    /\ writers' = [writers EXCEPT ![s] = WRITER_IDLE]
    /\ call' = Call("race_dump", call.value)
    /\ UNCHANGED <<game_state, now, saves>>

NextRace ==
    \/ \E s \in Sessions : RaceLoadAdd(s)
    \/ \E s \in Sessions : RaceOpen(s)
    \/ \E s \in Sessions : RaceDump(s)

SpecRace == Init /\ [][NextRace]_vars

\* ================================================================ claims
\* Shorthands for the fields of the session record before and after a step.
HasQuestion(state) == state.current_question # None
CorrectAnswer(state) == Get(state.current_question).answer
Elapsed(state, t) == t - Get(state.start_time)
IsWrongMessage(message) == message.text = MSG_WRONG(0).text

\* The band table of the scoring policy: rounds 1-7 give 1 point, 8-14 give
\* 5 points, 15-20 give 10 points.
BandPoints(r) == IF r \in 1..7 THEN 1 ELSE IF r \in 8..14 THEN 5 ELSE 10

\* A step that applied submitAnswer to a state with a question, and the
\* value it was given.
SubmitStep == call'.op = "submit" /\ HasQuestion(game_state)
SubmittedValue == Get(call'.value)

\* C1: in every reachable state of the game core (after any sequence of
\* start, submitAnswer, checkTimer, save-score and restart) the current
\* question is present if and only if the status is playing.
C1_QuestionIffPlaying ==
    HasQuestion(game_state) <=> game_state.status = "playing"

\* A timeout has ended a game and cleared its question.
C1_Witness ==
    /\ game_state.status = "game_over"
    /\ game_state.last_message = MSG_TIME_UP
    /\ ~HasQuestion(game_state)

\* C2: submitAnswer with a value different from the answer, in a playing
\* state of any round, ends the game at once: status game_over, question
\* cleared, score and round unchanged, high score form shown exactly if the
\* score is positive; in round 1 that is score 0 and no form.
C2_WrongAnswerEndsGame ==
    [][(/\ SubmitStep
        /\ game_state.status = "playing"
        /\ SubmittedValue # CorrectAnswer(game_state))
       => /\ game_state'.status = "game_over"
          /\ ~HasQuestion(game_state')
          /\ game_state'.score = game_state.score
          /\ game_state'.current_round = game_state.current_round
          /\ game_state'.show_highscore_form = (game_state.score > 0)
          /\ (game_state.current_round = 1
                => game_state'.score = 0 /\ ~game_state'.show_highscore_form)]_vars

\* A wrong answer in the last round ended a game with a positive score.
C2_Witness ==
    /\ call.op = "submit"
    /\ game_state.status = "game_over"
    /\ IsWrongMessage(game_state.last_message)
    /\ game_state.current_round = TOTAL_ROUNDS
    /\ game_state.show_highscore_form

\* C3: submitAnswer with the right value in round 20 ends the game with the
\* completion message, the question cleared and the high score form shown
\* exactly if the score is positive; the completion message appears on no
\* other step, and a game ended by a wrong answer or by the timer carries a
\* different message.
C3_CompletionOnlyAfterRound20 ==
    [][/\ (/\ SubmitStep
           /\ game_state.status = "playing"
           /\ game_state.current_round = 20
           /\ SubmittedValue = CorrectAnswer(game_state))
          => /\ game_state'.status = "game_over"
             /\ game_state'.last_message = MSG_FINISHED
             /\ ~HasQuestion(game_state')
             /\ game_state'.show_highscore_form = (game_state'.score > 0)
       /\ (game_state'.last_message = MSG_FINISHED
              /\ game_state.last_message # MSG_FINISHED)
          => /\ SubmitStep
             /\ game_state.current_round = 20
             /\ SubmittedValue = CorrectAnswer(game_state)
       /\ (/\ game_state.status = "playing"
           /\ game_state'.status = "game_over"
           /\ \/ call'.op = "timer"
              \/ SubmitStep /\ SubmittedValue # CorrectAnswer(game_state))
          => game_state'.last_message # MSG_FINISHED]_vars

\* The right answer of round 20 has just ended a game.
C3_Witness ==
    /\ call.op = "submit"
    /\ game_state.status = "game_over"
    /\ game_state.last_message = MSG_FINISHED
    /\ game_state.current_round = TOTAL_ROUNDS + 1

\* C4: a game that ends by completion (20 right answers, no timeout) ends
\* with score 102 = 7*1 + 7*5 + 6*10 and status game_over, and the step that
\* completes it shows the high score form.
C4_CompletionScores102 ==
    [][game_state'.last_message = MSG_FINISHED
       => /\ game_state'.score = 7 * 1 + 7 * 5 + 6 * 10
          /\ game_state'.status = "game_over"
          /\ game_state'.current_round = 20 + 1
          /\ (game_state.last_message # MSG_FINISHED
                => game_state'.show_highscore_form)]_vars

\* A completed game shows score 102 and the high score form.
C4_Witness ==
    /\ game_state.last_message = MSG_FINISHED
    /\ game_state.score = 102
    /\ game_state.status = "game_over"
    /\ game_state.show_highscore_form

\* C5: submitAnswer with the right value in round r of 1..19 adds exactly
\* the points of round r (not of round r+1) to the score, makes the round
\* r+1, keeps the status playing and sets a question generated for round
\* r+1; after start and one right answer the score is 1 and the round 2.
C5_CorrectAnswerAdvances ==
    [][(/\ SubmitStep
        /\ game_state.status = "playing"
        /\ game_state.current_round \in 1..19
        /\ SubmittedValue = CorrectAnswer(game_state))
       => /\ game_state'.score = game_state.score + BandPoints(game_state.current_round)
          /\ game_state'.current_round = game_state.current_round + 1
          /\ game_state'.status = "playing"
          /\ HasQuestion(game_state')
          /\ Get(game_state'.current_question)
                \in generate_question(game_state.current_round + 1)
          /\ (game_state.current_round = 1
                => game_state'.score = 1 /\ game_state'.current_round = 2)]_vars

\* The right answer of round 7, the last of the 1-point band, was given.
C5_Witness ==
    /\ call.op = "submit"
    /\ game_state.status = "playing"
    /\ game_state.current_round = 8
    /\ game_state.score = 7

\* C6: checkTimer changes the state if and only if the status is playing
\* and more than 300 seconds have elapsed: then the game is over, the
\* question cleared, the score unchanged and the high score form shown
\* exactly if the score is positive; otherwise (elapsed <= 300, or status
\* welcome or game_over) the state is returned unchanged.
C6_TimerChangesOnlyPastLimit ==
    [][call'.op = "timer"
       => IF /\ game_state.status = "playing"
             /\ game_state.start_time # None
             /\ Elapsed(game_state, now) > 300
          THEN /\ game_state' # game_state
               /\ game_state'.status = "game_over"
               /\ ~HasQuestion(game_state')
               /\ game_state'.score = game_state.score
               /\ game_state'.show_highscore_form = (game_state.score > 0)
          ELSE game_state' = game_state]_vars

\* checkTimer was applied to a playing state exactly 300 seconds after its
\* start and left it playing.
C6_Witness ==
    /\ call.op = "timer"
    /\ game_state.status = "playing"
    /\ Elapsed(game_state, now) = 300

\* C7: in the application the status changes only welcome -> playing (by
\* start), playing -> game_over (by a wrong answer, the final right answer
\* or a timeout) and game_over -> welcome (by restart); a playing state
\* changes and stays playing only on a right answer that is not the final
\* one.
C7_StatusEdges ==
    [][/\ game_state'.status # game_state.status
          => \/ /\ game_state.status = "welcome"
                /\ game_state'.status = "playing"
                /\ call'.op = "start"
             \/ /\ game_state.status = "playing"
                /\ game_state'.status = "game_over"
                /\ \/ /\ call'.op = "submit"
                      /\ SubmittedValue # CorrectAnswer(game_state)
                      /\ IsWrongMessage(game_state'.last_message)
                   \/ /\ call'.op = "submit"
                      /\ SubmittedValue = CorrectAnswer(game_state)
                      /\ game_state.current_round = 20
                      /\ game_state'.last_message = MSG_FINISHED
                   \/ /\ Elapsed(game_state, now) > 300
                      /\ game_state'.last_message = MSG_TIME_UP
             \/ /\ game_state.status = "game_over"
                /\ game_state'.status = "welcome"
                /\ call'.op = "restart"
       /\ (/\ game_state.status = "playing"
           /\ game_state'.status = "playing"
           /\ game_state' # game_state)
          => /\ call'.op = "submit"
             /\ SubmittedValue = CorrectAnswer(game_state)
             /\ game_state.current_round < 20]_vars

\* "Play Again" has taken a finished game back to the welcome screen.
C7_Witness ==
    /\ call.op = "restart"
    /\ game_state.status = "welcome"
    /\ now > 0

\* C8: within one session (no start or restart step) no step lowers the
\* score or the round, and the round increases, by exactly 1, only in a
\* submitAnswer step whose value equals the answer; wrong answers, timer
\* checks and saving a high score change neither.
C8_ScoreAndRoundMonotonic ==
    [][call'.op \notin {"start", "restart"}
       => /\ game_state'.score >= game_state.score
          /\ game_state'.current_round >= game_state.current_round
          /\ game_state'.current_round # game_state.current_round
                => /\ game_state'.current_round = game_state.current_round + 1
                   /\ SubmitStep
                   /\ SubmittedValue = CorrectAnswer(game_state)
          /\ (\/ call'.op \in {"timer", "save", "tick"}
              \/ SubmitStep /\ SubmittedValue # CorrectAnswer(game_state))
                => /\ game_state'.score = game_state.score
                   /\ game_state'.current_round = game_state.current_round]_vars

\* A high score was saved for a game that ended after its first round.
C8_Witness ==
    /\ call.op = "save"
    /\ ~game_state.show_highscore_form
    /\ game_state.score > 0
    /\ game_state.current_round > 1

\* C9: in every reachable state, status welcome implies round 0 and status
\* playing implies a round of 1..20 (never 21 or more while a question is
\* asked).
C9_RoundRange ==
    /\ game_state.status = "welcome" => game_state.current_round = 0
    /\ game_state.status = "playing" => game_state.current_round \in 1..20

\* The last round is being played.
C9_Witness ==
    /\ game_state.status = "playing"
    /\ game_state.current_round = 20
    /\ HasQuestion(game_state)

\* C10: submitAnswer applied to a state with no current question (status
\* welcome or game_over) returns a state equal to its input in every field,
\* whatever the value, and has a result (no error).
C10_SubmitWithoutQuestionIsNoOp ==
    [][(call'.op = "submit" /\ ~HasQuestion(game_state))
       => game_state' = game_state]_vars

\* submitAnswer was applied to a finished game whose high score form is
\* shown.
C10_Witness ==
    /\ call.op = "submit"
    /\ Get(call.value) = -1
    /\ game_state.status = "game_over"
    /\ game_state.last_message = MSG_TIME_UP
    /\ game_state.show_highscore_form

\* The band table of the scoring policy: rounds 1-7 are phase 1, 8-14 are
\* phase 2, 15-20 are phase 3.
BandPhase(r) == IF r \in 1..7 THEN 1 ELSE IF r \in 8..14 THEN 2 ELSE 3

\* C11: for all rounds of 1..20 the phase and the points returned agree with
\* the band table (1-7: phase 1, 1 point; 8-14: phase 2, 5 points; 15-20:
\* phase 3, 10 points), phase and points change at the same rounds, and the
\* phase never decreases as the round grows.
C11_ScoringFollowsBandTable ==
    call.op = "scoring"
    => LET r1 == call.value[1]
           phase1 == call.value[2]
           points1 == call.value[3]
           r2 == call.value[4]
           phase2 == call.value[5]
           points2 == call.value[6]
       IN  /\ phase1 = BandPhase(r1) /\ points1 = BandPoints(r1)
           /\ phase2 = BandPhase(r2) /\ points2 = BandPoints(r2)
           /\ (phase1 = phase2) <=> (points1 = points2)
           /\ r1 <= r2 => phase1 <= phase2

\* The functions were applied to rounds 7 and 8, on the two sides of the
\* first band boundary.
C11_Witness ==
    /\ call.op = "scoring"
    /\ call.value[1] = 7 /\ call.value[2] = 1 /\ call.value[3] = 1
    /\ call.value[4] = 8 /\ call.value[5] = 2 /\ call.value[6] = 5

\* The operands of question q lie in the ranges of the phase of round r:
\* phase 1 both in [1,10]; phase 2 one in [1,10] and one in [11,20], in
\* either order; phase 3 both in [11,20].
OperandsMatchPhase(q, r) ==
    LET small(x) == x \in 1..10
        large(x) == x \in 11..20
    IN  IF BandPhase(r) = 1 THEN small(q.a) /\ small(q.b)
        ELSE IF BandPhase(r) = 2
             THEN (small(q.a) /\ large(q.b)) \/ (large(q.a) /\ small(q.b))
             ELSE large(q.a) /\ large(q.b)

\* C12: every question generated for a round of 1..20 has answer a*b and
\* operands in the ranges of the round's phase, and so has the current
\* question of every playing state for the phase of its current round.
C12_QuestionMatchesPhase ==
    /\ \A r \in 1..20 : \A q \in generate_question(r) :
            q.answer = q.a * q.b /\ OperandsMatchPhase(q, r)
    /\ (game_state.status = "playing" /\ HasQuestion(game_state))
       => LET q == Get(game_state.current_question)
          IN  /\ q.answer = q.a * q.b
              /\ OperandsMatchPhase(q, game_state.current_round)

\* A phase 2 question with the large operand first is being asked.
C12_Witness ==
    /\ game_state.status = "playing"
    /\ game_state.current_round = 14
    /\ HasQuestion(game_state)
    /\ Get(game_state.current_question).a = 20
    /\ Get(game_state.current_question).b = 1
    /\ Get(game_state.current_question).answer = 20

\* scores is ranked: no entry has a higher score than one before it.
SortedDescending(scores) ==
    \A i \in DOMAIN scores, j \in DOMAIN scores :
        i < j => scores[i].score >= scores[j].score

\* The ranked list old with entry put after every entry that has at least
\* entry's score; the entries of old keep their order.
InsertAfterTies(old, entry) ==
    LET k == Cardinality({i \in DOMAIN old : old[i].score >= entry.score})
    IN  SubSeq(old, 1, k) \o <<entry>> \o SubSeq(old, k + 1, Len(old))

FirstTen(scores) ==
    SubSeq(scores, 1, IF Len(scores) < 10 THEN Len(scores) ELSE 10)

\* C13: whenever add was applied to a name, a score and a ranked leaderboard
\* of 0..10 entries, the result has at most 10 entries, is sorted descending
\* by score, and is the first ten of the old entries in their old order with
\* the new entry after every entry of the same or a higher score; a new
\* entry that ties the last entry of a full board is the one dropped.
C13_AddKeepsBoardRanked ==
    (call.op = "add" /\ SortedDescending(call.current) /\ Len(call.current) <= 10)
    => LET old == call.current
           entry == [name |-> call.name, score |-> call.score,
                     date |-> strftime(now)]
       IN  /\ Len(call.result) <= 10
           /\ SortedDescending(call.result)
           /\ call.result = FirstTen(InsertAfterTies(old, entry))
           /\ (Len(old) = 10 /\ old[10].score = entry.score)
              => call.result = old

\* add was applied to a full board of two names whose last entry has the
\* new entry's score, and returned the board as it was.
C13_Witness ==
    /\ call.op = "add"
    /\ Len(call.current) = 10
    /\ \E i \in 1..10, j \in 1..10 : call.current[i].name # call.current[j].name
    /\ call.current[10].score = call.score
    /\ call.result = call.current

\* The number of times entry occurs in scores.
Occurrences(scores, entry) ==
    Cardinality({i \in DOMAIN scores : scores[i] = entry})

SameMultiset(scores1, scores2) ==
    /\ Len(scores1) = Len(scores2)
    /\ \A i \in DOMAIN scores1 :
        Occurrences(scores1, scores1[i]) = Occurrences(scores2, scores1[i])

\* The entries a file holds: those of its JSON list, none otherwise.
Persisted(file) == IF file.kind = "json" THEN file.scores ELSE << >>

\* C14: after save(load()) has written the file, load() returns the same
\* multiset of entries the file held before, ranked descending by score,
\* the list the first load returned; and after add("Ada", 102, []) and a
\* save that wrote the file, load() returns the single entry Ada/102.
C14_RoundTrip ==
    /\ (call.op = "resave" /\ call.io = "ok")
       => LET loaded == load_highscores(highscore_file)
          IN  /\ SameMultiset(loaded, Persisted(call.before))
              /\ SortedDescending(loaded)
              /\ loaded = call.current
    /\ (call.op = "add" /\ call.io = "ok" /\ call.current = << >>
        /\ call.name = <<"A", "d", "a">> /\ call.score = 102)
       => LET loaded == load_highscores(highscore_file)
          IN  /\ Len(loaded) = 1
              /\ loaded[1].name = <<"A", "d", "a">>
              /\ loaded[1].score = 102

\* save(load()) has rewritten a file whose two entries were stored with the
\* lower score first.
C14_Witness ==
    /\ call.op = "resave"
    /\ call.io = "ok"
    /\ call.before.kind = "json"
    /\ Len(call.before.scores) = 2
    /\ call.before.scores[1].score < call.before.scores[2].score
    /\ highscore_file.kind = "json"
    /\ highscore_file.scores[1].score > highscore_file.scores[2].score

\* C15: every load of a leaderboard file that is missing or holds no JSON
\* returns the empty sequence to its caller, and the step changes neither
\* the game state of the session nor the file.
C15_FailedLoadYieldsEmpty ==
    [][(call'.op = "load" /\ highscore_file.kind \in {"missing", "malformed"})
       => /\ call'.result = << >>
          /\ game_state' = game_state
          /\ highscore_file' = highscore_file]_vars

\* load has returned the empty sequence for a file that holds no JSON.
C15_Witness ==
    /\ call.op = "load"
    /\ call.before.kind = "malformed"
    /\ call.result = << >>
    /\ highscore_file.kind = "malformed"

\* C16: every entry of the persisted leaderboard has a name that is
\* non-empty, at most 20 characters long and trimmed (it neither starts nor
\* ends with white space), whatever text was submitted in the name form.
C16_StoredNamesTrimmedNonEmpty ==
    \A i \in DOMAIN highscore_file.scores :
        LET name == highscore_file.scores[i].name
        IN  /\ name # << >>
            /\ Len(name) <= 20
            /\ name[1] # " "
            /\ name[Len(name)] # " "

\* C17: at every moment of the interleaved load, add, save cycles of the
\* sessions, once a save has been made the persisted leaderboard is exactly
\* the sequence given to the most recent save, and it has at most 10
\* entries sorted descending by score.
C17_FileIsMostRecentSave ==
    (call.op \in {"race_load", "race_open", "race_dump"} /\ call.value # None)
    => /\ highscore_file = FILE_JSON(Get(call.value))
       /\ Len(highscore_file.scores) <= 10
       /\ SortedDescending(highscore_file.scores)

\* C18: a session ends within 20 answers.  start produces round 1; every
\* answer compared with a question is compared in a round of 1..20 and
\* either ends the session (game_over) or moves it to the next round; the
\* answer of round 20 always ends it, leaving no question for a 21st; and
\* no other step of a game in play (a timer check, a tick) sets the round
\* back.
C18_SessionEndsWithinTwentyAnswers ==
    [][/\ call'.op = "start"
            => /\ game_state'.status = "playing"
               /\ game_state'.current_round = 1
       /\ SubmitStep
            => /\ game_state.current_round \in 1..20
               /\ \/ game_state'.status = "game_over"
                  \/ /\ game_state'.status = "playing"
                     /\ game_state'.current_round = game_state.current_round + 1
               /\ game_state.current_round = 20
                    => /\ game_state'.status = "game_over"
                       /\ ~HasQuestion(game_state')
       /\ (call'.op \notin {"start", "submit"} /\ game_state.status = "playing")
            => \/ game_state'.status # "playing"
               \/ game_state'.current_round = game_state.current_round]_vars

\* The 20th answer of a session was compared and found right: the game is
\* over with all 102 points and no question is left.
C18_Witness ==
    /\ call.op = "submit"
    /\ game_state.status = "game_over"
    /\ game_state.current_round = 21
    /\ game_state.score = 102
    /\ game_state.last_message = MSG_FINISHED
    /\ ~HasQuestion(game_state)

\* C19: once more than 300 seconds have elapsed in a game being played, no
\* step of the app increases the score or the round or puts another
\* question, and every run of the app (an answer submitted, right or wrong,
\* or a plain rerun) ends the session as game_over with the time-up
\* message: the answer is not scored.
C19_NoScoringAfterTimeLimit ==
    [][(game_state.status = "playing" /\ Elapsed(game_state, now) > 300)
       => /\ game_state'.score = game_state.score
          /\ game_state'.current_round = game_state.current_round
          /\ game_state'.current_question \in {game_state.current_question, None}
          /\ call'.op \in {"submit", "rerun"}
                => /\ game_state'.status = "game_over"
                   /\ game_state'.last_message = MSG_TIME_UP
                   /\ ~HasQuestion(game_state')]_vars

\* 100 was submitted in round 1 after the time limit; it is offered in
\* round 1 only for the question 10 x 10, whose answer it is.  The game is
\* over by timeout and nothing was scored.
C19_Witness ==
    /\ call.op = "submit"
    /\ Get(call.value) = 100
    /\ game_state.status = "game_over"
    /\ game_state.last_message = MSG_TIME_UP
    /\ game_state.current_round = 1
    /\ game_state.score = 0
    /\ Elapsed(game_state, now) > 300

\* The entries that occur more often in new than in old.
AddedEntries(old, new) ==
    {new[i] : i \in {j \in DOMAIN new :
                        Occurrences(new, new[j]) > Occurrences(old, new[j])}}

\* C20: a session adds at most one entry, and only when it is over with a
\* positive score.  The high score form is shown only in game_over states
\* with score > 0, and it starts to be shown only in the step that ends a
\* game being played; the leaderboard file changes only in a save step
\* taken while the form is shown; a save step hides the form and keeps the
\* score; and a save that wrote the file added at most one entry, whose
\* score is the session's final score.
C20_OneEntryPerFinishedSession ==
    [][/\ game_state'.show_highscore_form
            => game_state'.status = "game_over" /\ game_state'.score > 0
       /\ (~game_state.show_highscore_form /\ game_state'.show_highscore_form)
            => game_state.status = "playing" /\ game_state'.status = "game_over"
       /\ highscore_file' # highscore_file => call'.op = "save"
       /\ call'.op = "save"
            => /\ game_state.show_highscore_form
               /\ game_state.status = "game_over"
               /\ game_state.score > 0
               /\ ~game_state'.show_highscore_form
               /\ game_state'.score = game_state.score
               /\ highscore_file'.kind = "json"
                    => LET old == Persisted(highscore_file)
                           new == highscore_file'.scores
                       IN  /\ Cardinality(AddedEntries(old, new)) <= 1
                           /\ \A e \in AddedEntries(old, new) :
                                /\ Occurrences(new, e) = Occurrences(old, e) + 1
                                /\ e.score = game_state.score]_vars

\* A session that ended with 6 points has saved its entry: the form is
\* hidden and the file holds the one entry, with the session's score.
C20_Witness ==
    /\ call.op = "save"
    /\ game_state.status = "game_over"
    /\ ~game_state.show_highscore_form
    /\ game_state.score = 6
    /\ highscore_file.kind = "json"
    /\ Len(highscore_file.scores) = 1
    /\ highscore_file.scores[1].score = 6

====
